---------------------------- MODULE Spec2Model ----------------------------
(***************************************************************************)
(* Schema inference of the OCR/Import service (app/schema_infer.py,        *)
(* app/models.py) and the handler that calls it (import_preview in         *)
(* app/main.py).                                                           *)
(*                                                                         *)
(* Strings are tuples of one-character strings, so that strip, lower and   *)
(* the regular expressions are computed character by character.  A         *)
(* confidence is kept in thousandths (round(conf, 3) * 1000); None is      *)
(* NoConfidence.                                                           *)
(***************************************************************************)
EXTENDS Integers, Sequences, FiniteSets, TLC

(***************************************************************************)
(* Bounds of the model                                                     *)
(***************************************************************************)
MaxRows == 2       \* rows of a request in Spec and SpecPair
MaxTyped == 4      \* leading literal cells of the column in SpecColumn
MaxWords == 12     \* distinct free-text cells of the column in SpecColumn
MaxRepeat == 4     \* blocks of repeated rows appended in SpecColumn
RepeatBlock == 7   \* rows of one block
RepeatTyped == 1   \* most literal cells of a column that takes blocks
NSlots == 2        \* slots of the hash table that orders the keys

(***************************************************************************)
(* State                                                                   *)
(***************************************************************************)
VARIABLES
  hashSeed,      \* the hash slot of every key in this interpreter process
  rows,          \* the rows of the request: req.rows, the rows argument
  gen,           \* how the client has laid out the column so far (SpecColumn)
  pc,            \* "build", then the call made
  sample_size,   \* the sample_size of the last call of infer_schema
  out,           \* what the last call of infer_schema returned
  inferInvoked,  \* whether the handler called infer_schema
  reqSchema,     \* req.schema of the request handled
  response,      \* the response of import_preview
  prevRows,      \* the rows of the first of two calls (SpecPair)
  prevOut        \* what the first of two calls returned (SpecPair)

vars == <<hashSeed, rows, gen, pc, sample_size, out, inferInvoked, reqSchema,
          response, prevRows, prevOut>>

(***************************************************************************)
(* Characters and strings                                                  *)
(***************************************************************************)
Digits == <<"0", "1", "2", "3", "4", "5", "6", "7", "8", "9">>

DigitValues == [c \in {Digits[i] : i \in 1..10} |-> (CHOOSE i \in 1..10 : Digits[i] = c) - 1]

IsDigit(c) == c \in DOMAIN DigitValues

DigitVal(c) == DigitValues[c]

Whitespace == {" ", "\t", "\n", "\r"}

UpperCase == <<"A", "B", "C", "D", "E", "F", "G", "H", "I", "J", "K", "L", "M",
               "N", "O", "P", "Q", "R", "S", "T", "U", "V", "W", "X", "Y", "Z">>

LowerCase == <<"a", "b", "c", "d", "e", "f", "g", "h", "i", "j", "k", "l", "m",
               "n", "o", "p", "q", "r", "s", "t", "u", "v", "w", "x", "y", "z">>

LowerOf == [c \in {UpperCase[i] : i \in 1..26} |-> LowerCase[CHOOSE i \in 1..26 : UpperCase[i] = c]]

\* str.lower() of one character
LowerChar(c) == IF c \in DOMAIN LowerOf THEN LowerOf[c] ELSE c

\* str.lower()
lower(s) == [i \in 1..Len(s) |-> LowerChar(s[i])]

\* str.strip(): drop leading and trailing whitespace
strip(s) ==
  IF \A i \in 1..Len(s) : s[i] \in Whitespace THEN <<>>
  ELSE LET first == CHOOSE i \in 1..Len(s) :
                      s[i] \notin Whitespace /\ \A j \in 1..(i - 1) : s[j] \in Whitespace
           last == CHOOSE i \in 1..Len(s) :
                     s[i] \notin Whitespace /\ \A j \in (i + 1)..Len(s) : s[j] \in Whitespace
       IN  IF first = 1 /\ last = Len(s) THEN s ELSE SubSeq(s, first, last)

\* str.replace(old, new) for a one-character old and a new of length <= 1
RECURSIVE replace(_, _, _)
replace(s, old, new) ==
  IF s = <<>> THEN <<>>
  ELSE (IF Head(s) = old THEN new ELSE <<Head(s)>>) \o replace(Tail(s), old, new)

\* the decimal value of a non-empty run of digits
RECURSIVE ToInt(_)
ToInt(s) ==
  IF s = <<>> THEN 0
  ELSE 10 * ToInt(SubSeq(s, 1, Len(s) - 1)) + DigitVal(s[Len(s)])

AllDigits(s) == \A i \in 1..Len(s) : IsDigit(s[i])

\* str(i) of a Python int
RECURSIVE NatStr(_)
NatStr(n) == IF n < 10 THEN <<Digits[n + 1]>> ELSE NatStr(n \div 10) \o <<Digits[(n % 10) + 1]>>

IntStr(i) == IF i < 0 THEN <<"-">> \o NatStr(0 - i) ELSE NatStr(i)

(***************************************************************************)
(* Cell values of a row record: None, str, int, bool                       *)
(***************************************************************************)
NoneCell == [t |-> "none", s |-> <<>>, i |-> 0]

StrCell(s) == [t |-> "str", s |-> s, i |-> 0]

IntCell(i) == [t |-> "int", s |-> <<>>, i |-> i]

BoolCell(b) == [t |-> "bool", s |-> <<>>, i |-> IF b THEN 1 ELSE 0]

\* Python str(v)
str(v) ==
  CASE v.t = "str" -> v.s
    [] v.t = "int" -> IntStr(v.i)
    [] v.t = "bool" -> IF v.i = 1 THEN <<"T", "r", "u", "e">> ELSE <<"F", "a", "l", "s", "e">>
    [] OTHER -> <<"N", "o", "n", "e">>

\* Normalize without the strip: a blank string counts as a value
NormalizeNoStrip(v) == IF v.t = "none" THEN <<>> ELSE str(v)

\* "" if v is None else str(v).strip()
Normalize(v) == IF v.t = "none" THEN <<>> ELSE strip(str(v))

(***************************************************************************)
(* Type predicates                                                         *)
(***************************************************************************)
\* "$" also matches before a final newline
BeforeDollar(s) ==
  IF Len(s) > 0 /\ s[Len(s)] = "\n" THEN {s, SubSeq(s, 1, Len(s) - 1)} ELSE {s}

\* the rest of s after an optional leading minus
AfterMinus(s) == IF Len(s) > 0 /\ s[1] = "-" THEN Tail(s) ELSE s

\* INT_RE = ^-?\d+$
INT_RE(v) ==
  \E s \in BeforeDollar(v) :
    LET body == AfterMinus(s) IN Len(body) >= 1 /\ AllDigits(body)

\* NUM_RE with the fraction required: ^-?\d+\.\d+$
NUM_RE_FractionOnly(v) ==
  \E s \in BeforeDollar(v) :
    LET body == AfterMinus(s)
    IN  \E p \in 2..(Len(body) - 1) :
          /\ body[p] = "."
          /\ AllDigits(SubSeq(body, 1, p - 1))
          /\ AllDigits(SubSeq(body, p + 1, Len(body)))

\* NUM_RE = ^-?\d+(\.\d+)?$
NUM_RE(v) ==
  \E s \in BeforeDollar(v) :
    LET body == AfterMinus(s)
    IN  \/ Len(body) >= 1 /\ AllDigits(body)
        \/ \E p \in 2..(Len(body) - 1) :
             /\ body[p] = "."
             /\ AllDigits(SubSeq(body, 1, p - 1))
             /\ AllDigits(SubSeq(body, p + 1, Len(body)))

BOOL == { <<"t", "r", "u", "e">>, <<"f", "a", "l", "s", "e">>, <<"0">>, <<"1">>,
          <<"y", "e", "s">>, <<"n", "o">>, <<"y">>, <<"n">>, <<"t">>, <<"f">> }


(***************************************************************************)
(* Date parsing: datetime.strptime over DATE_FORMATS, then fromisoformat   *)
(***************************************************************************)
\* A format is its sequence of directives and literal characters; a blank in
\* a format stands for a run of whitespace, as strptime compiles it to \s+.
DATE_FORMATS ==
  << <<"%Y", "-", "%m", "-", "%d">>,
     <<"%d", "/", "%m", "/", "%Y">>,
     <<"%m", "/", "%d", "/", "%Y">>,
     <<"%Y", "/", "%m", "/", "%d">>,
     <<"%d", "-", "%m", "-", "%Y">>,
     <<"%m", "-", "%d", "-", "%Y">>,
     <<"%Y", "-", "%m", "-", "%d", " ", "%H", ":", "%M", ":", "%S">>,
     <<"%d", "/", "%m", "/", "%Y", " ", "%H", ":", "%M">>,
     <<"%m", "/", "%d", "/", "%Y", " ", "%H", ":", "%M">> >>

Directives == {"%Y", "%m", "%d", "%H", "%M", "%S"}

\* the text a directive accepts, as strptime's regular expression for it:
\*   %Y \d\d\d\d                      %m 1[0-2]|0[1-9]|[1-9]
\*   %d 3[0-1]|[1-2]\d|0[1-9]|[1-9]| [1-9]
\*   %H 2[0-3]|[0-1]\d|\d    %M [0-5]\d|\d    %S 6[0-1]|[0-5]\d|\d
DirectiveMatches(d, lex) ==
  LET n == Len(lex)
      v == ToInt(lex)
  IN  CASE d = "%Y" -> n = 4 /\ AllDigits(lex)
        [] d = "%m" -> \/ n = 2 /\ AllDigits(lex) /\ v >= 1 /\ v <= 12
                       \/ n = 1 /\ AllDigits(lex) /\ v >= 1
        [] d = "%d" -> \/ n = 2 /\ AllDigits(lex) /\ v >= 1 /\ v <= 31
                       \/ n = 1 /\ AllDigits(lex) /\ v >= 1
                       \/ n = 2 /\ lex[1] = " " /\ IsDigit(lex[2]) /\ lex[2] # "0"
        [] d = "%H" -> \/ n = 2 /\ AllDigits(lex) /\ v <= 23
                       \/ n = 1 /\ AllDigits(lex)
        [] d = "%M" -> \/ n = 2 /\ AllDigits(lex) /\ v <= 59
                       \/ n = 1 /\ AllDigits(lex)
        [] d = "%S" -> \/ n = 2 /\ AllDigits(lex) /\ v <= 61
                       \/ n = 1 /\ AllDigits(lex)
        [] OTHER -> FALSE

DirectiveValue(lex) == IF lex[1] = " " THEN ToInt(Tail(lex)) ELSE ToInt(lex)

\* The ways s[pos..] matches fmt[k..] to the end of s, each as the values of
\* the directives in format order.  The alternatives of every directive are
\* tried longest first, so the match strptime keeps is a match of the whole
\* text whenever one exists ("unconverted data remains" otherwise).
RECURSIVE StrpMatch(_, _, _, _)
StrpMatch(s, pos, fmt, k) ==
  IF k > Len(fmt) THEN (IF pos = Len(s) + 1 THEN {<<>>} ELSE {})
  ELSE IF fmt[k] \in Directives
  THEN UNION { { <<DirectiveValue(SubSeq(s, pos, pos + n - 1))>> \o rest :
                   rest \in StrpMatch(s, pos + n, fmt, k + 1) } :
               n \in {m \in {1, 2, 4} : /\ pos + m - 1 <= Len(s)
                                        /\ DirectiveMatches(fmt[k], SubSeq(s, pos, pos + m - 1))} }
  ELSE IF fmt[k] = " "
  THEN UNION { StrpMatch(s, pos + n, fmt, k + 1) :
               n \in {m \in 1..(Len(s) - pos + 1) :
                        \A j \in pos..(pos + m - 1) : s[j] \in Whitespace} }
  ELSE IF pos <= Len(s) /\ s[pos] = fmt[k] THEN StrpMatch(s, pos + 1, fmt, k + 1)
  ELSE {}

IsLeap(y) == (y % 4 = 0 /\ y % 100 # 0) \/ y % 400 = 0

DaysInMonth(y, m) ==
  IF m = 2 THEN (IF IsLeap(y) THEN 29 ELSE 28)
  ELSE IF m \in {4, 6, 9, 11} THEN 30 ELSE 31

\* the range checks of the datetime constructor
ValidDateTime(y, m, d, hh, mm, ss) ==
  /\ y >= 1 /\ y <= 9999
  /\ m >= 1 /\ m <= 12
  /\ d >= 1 /\ d <= DaysInMonth(y, m)
  /\ hh >= 0 /\ hh <= 23
  /\ mm >= 0 /\ mm <= 59
  /\ ss >= 0 /\ ss <= 59

\* the value of directive d in a match of fmt, 0 when fmt has no such
\* directive (the hour, minute and second default to 0)
Field(fmt, vals, d) ==
  LET idx == {k \in 1..Len(fmt) : fmt[k] = d}
  IN  IF idx = {} THEN 0
      ELSE LET k == CHOOSE j \in idx : TRUE
           IN  vals[Cardinality({j \in 1..k : fmt[j] \in Directives})]

\* datetime.strptime(s, fmt) does not raise
strptime(s, fmt) ==
  \E vals \in StrpMatch(s, 1, fmt, 1) :
    ValidDateTime(Field(fmt, vals, "%Y"), Field(fmt, vals, "%m"), Field(fmt, vals, "%d"),
                  Field(fmt, vals, "%H"), Field(fmt, vals, "%M"), Field(fmt, vals, "%S"))

TwoDigits(s, p) == p + 1 <= Len(s) /\ IsDigit(s[p]) /\ IsDigit(s[p + 1])

\* datetime.fromisoformat(s) does not raise, for the extended forms
\* YYYY-MM-DD and YYYY-MM-DD?HH[:MM[:SS]] (? any one character).  The basic
\* forms, fractions of a second and UTC offsets, whose acceptance depends on
\* the interpreter, are not among the cells of the model.
fromisoformat(s) ==
  /\ Len(s) >= 10
  /\ AllDigits(SubSeq(s, 1, 4)) /\ s[5] = "-" /\ TwoDigits(s, 6)
  /\ s[8] = "-" /\ TwoDigits(s, 9)
  /\ Len(s) \in {10, 13, 16, 19}
  /\ Len(s) >= 13 => TwoDigits(s, 12)
  /\ Len(s) >= 16 => s[14] = ":" /\ TwoDigits(s, 15)
  /\ Len(s) >= 19 => s[17] = ":" /\ TwoDigits(s, 18)
  /\ ValidDateTime(ToInt(SubSeq(s, 1, 4)), ToInt(SubSeq(s, 6, 7)), ToInt(SubSeq(s, 9, 10)),
                   IF Len(s) >= 13 THEN ToInt(SubSeq(s, 12, 13)) ELSE 0,
                   IF Len(s) >= 16 THEN ToInt(SubSeq(s, 15, 16)) ELSE 0,
                   IF Len(s) >= 19 THEN ToInt(SubSeq(s, 18, 19)) ELSE 0)

\* _is_date
_is_date(v) ==
  LET s == strip(v)
  IN  \/ \E f \in 1..Len(DATE_FORMATS) : strptime(s, DATE_FORMATS[f])
      \/ fromisoformat(replace(replace(s, "Z", <<>>), "T", <<" ">>))

(***************************************************************************)
(* Row records and column descriptors                                      *)
(***************************************************************************)
\* A row record is a dict: its (key, value) items in insertion order, no key
\* twice.
Keys == {"a", "b"}

Item(k, v) == <<k, v>>

\* r.keys()
DictKeys(r) == [i \in 1..Len(r) |-> r[i][1]]

HasKey(r, k) == \E i \in 1..Len(r) : r[i][1] = k

\* r.get(k): the value under k, None when r has no k
Get(r, k) ==
  IF HasKey(r, k) THEN r[CHOOSE i \in 1..Len(r) : r[i][1] = k][2] ELSE NoneCell

\* ColumnSchema: confidence in thousandths, NoConfidence for None
NoConfidence == -1

Types == {"number", "integer", "date", "boolean", "categorical", "string"}

ColumnSchema(name, type, nullable, confidence) ==
  [name |-> name, type |-> type, nullable |-> nullable, confidence |-> confidence]

\* ColumnSchema with a confidence that defaults to 0.0
ColumnSchemaZero(name, nullable) == ColumnSchema(name, "string", nullable, 0)

\* the field defaults of ColumnSchema: type 'string', nullable True, confidence None
ColumnSchemaDefault(name, nullable) == ColumnSchema(name, "string", nullable, NoConfidence)

(***************************************************************************)
(* infer_schema                                                            *)
(***************************************************************************)
DefaultSampleSize == 200

\* rows[:sample_size]; a negative sample_size counts from the end
Slice(rs, size) ==
  IF size >= 0 THEN SubSeq(rs, 1, IF size < Len(rs) THEN size ELSE Len(rs))
  ELSE SubSeq(rs, 1, Len(rs) + size)

\* the keys of the first sampled row only
KeyStreamFirstRow(sample) == IF sample = <<>> THEN <<>> ELSE DictKeys(Head(sample))

\* the keys of the sample in the order the set comprehension meets them
RECURSIVE KeyStream(_)
KeyStream(sample) ==
  IF sample = <<>> THEN <<>> ELSE DictKeys(Head(sample)) \o KeyStream(Tail(sample))

\* position of the first occurrence of k in a sequence of keys
FirstAt(ks, k) == CHOOSE i \in 1..Len(ks) : ks[i] = k /\ \A j \in 1..(i - 1) : ks[j] # k

\* list({k for r in sample for k in r.keys()}): a set lists its elements in
\* the order of their slots in the hash table, which the hashes of this
\* process decide (seed[k] is the slot of k); keys that collide are listed
\* in the order they were inserted.
\* SetOrder with an order that the calls made so far change
SetOrderByCall(seed, sample) ==
  LET ks == KeyStream(sample)
      ksSet == {ks[i] : i \in 1..Len(ks)}
      Before(x, y) == \/ seed[x] < seed[y]
                      \/ seed[x] = seed[y] /\ FirstAt(ks, x) < FirstAt(ks, y)
      After(x, y) == Before(y, x)
  IN  [i \in 1..Cardinality(ksSet) |->
         CHOOSE k \in ksSet :
           Cardinality({x \in ksSet : IF pc = "build" THEN Before(x, k) ELSE After(x, k)}) = i - 1]

SetOrder(seed, sample) ==
  LET ks == KeyStream(sample)
      ksSet == {ks[i] : i \in 1..Len(ks)}
      Before(x, y) == \/ seed[x] < seed[y]
                      \/ seed[x] = seed[y] /\ FirstAt(ks, x) < FirstAt(ks, y)
  IN  [i \in 1..Cardinality(ksSet) |->
         CHOOSE k \in ksSet : Cardinality({x \in ksSet : Before(x, k)}) = i - 1]

\* vals = ["" if v is None else str(v).strip() for v in (r.get(k) for r in sample)]
Vals(sample, k) == [i \in 1..Len(sample) |-> Normalize(Get(sample[i], k))]

\* non_empty = [v for v in vals if v != ""]
RECURSIVE NonEmpty(_)
NonEmpty(vals) ==
  IF vals = <<>> THEN <<>>
  ELSE (IF Head(vals) # <<>> THEN <<Head(vals)>> ELSE <<>>) \o NonEmpty(Tail(vals))

\* sum(1 for v in non_empty if P(v)), hits[i] being P(non_empty[i])
Count(hits) == Cardinality({i \in 1..Len(hits) : hits[i]})

IsBool(v) == lower(v) \in BOOL

\* len(set(non_empty))
Card(vs) == Cardinality({vs[i] : i \in 1..Len(vs)})

\* round(p/q, 3) in thousandths: to the nearest, a tie to the even one.
\* (The float quotient of the code agrees with this for every q < 80.)
Round3(p, q) ==
  LET f == (1000 * p) \div q
      r == (1000 * p) % q
  IN  IF 2 * r > q \/ (2 * r = q /\ f % 2 = 1) THEN f + 1 ELSE f

\* min(0.9, max(0.3, 1 - card/ne)) as a fraction <<p, q>>
Clamp(card, ne) ==
  IF 10 * (ne - card) < 3 * ne THEN <<3, 10>>
  ELSE IF 10 * (ne - card) > 9 * ne THEN <<9, 10>>
  ELSE <<ne - card, ne>>

\* the limit without its share of ne: card <= 10
CategoricalLimitFixed(card, ne) == card <= 10

\* card <= max(10, 0.3*ne)
CategoricalLimit(card, ne) == card <= 10 \/ 10 * card <= 3 * ne

\* Decide with the integer rule ahead of the boolean rule
DecideIntegerFirst(ne, boo, integ, num, dat, card) ==
  IF 2 * integ >= ne THEN [dtype |-> "integer", conf |-> <<integ, ne>>]
  ELSE IF 10 * boo >= 8 * ne THEN [dtype |-> "boolean", conf |-> <<boo, ne>>]
  ELSE IF 2 * num >= ne THEN [dtype |-> "number", conf |-> <<num, ne>>]
  ELSE IF 2 * dat >= ne THEN [dtype |-> "date", conf |-> <<dat, ne>>]
  ELSE IF card <= 10 \/ 10 * card <= 3 * ne
  THEN [dtype |-> "categorical", conf |-> Clamp(card, ne)]
  ELSE [dtype |-> "string", conf |-> <<1, 10>>]

\* Decide with every rule tested in turn, a later match replacing an
\* earlier one
DecideLastMatch(ne, boo, integ, num, dat, card) ==
  IF card <= 10 \/ 10 * card <= 3 * ne
  THEN [dtype |-> "categorical", conf |-> Clamp(card, ne)]
  ELSE IF 2 * dat >= ne THEN [dtype |-> "date", conf |-> <<dat, ne>>]
  ELSE IF 2 * num >= ne THEN [dtype |-> "number", conf |-> <<num, ne>>]
  ELSE IF 2 * integ >= ne THEN [dtype |-> "integer", conf |-> <<integ, ne>>]
  ELSE IF 10 * boo >= 8 * ne THEN [dtype |-> "boolean", conf |-> <<boo, ne>>]
  ELSE [dtype |-> "string", conf |-> <<1, 10>>]

\* the dtype and conf the chain of tests settles on, conf as a fraction
\* <<p, q>>.  The float products 0.8*ne, 0.5*ne and 0.3*ne of the code
\* compare with a count as these integer products do, for every ne <= 400.
Decide(ne, boo, integ, num, dat, card) ==
  IF 10 * boo >= 8 * ne THEN [dtype |-> "boolean", conf |-> <<boo, ne>>]
  ELSE IF 2 * integ >= ne THEN [dtype |-> "integer", conf |-> <<integ, ne>>]
  ELSE IF 2 * num >= ne THEN [dtype |-> "number", conf |-> <<num, ne>>]
  ELSE IF 2 * dat >= ne THEN [dtype |-> "date", conf |-> <<dat, ne>>]
  ELSE IF CategoricalLimit(card, ne) THEN [dtype |-> "categorical", conf |-> Clamp(card, ne)]
  ELSE [dtype |-> "string", conf |-> <<1, 10>>]

\* the body of the loop over keys: the descriptor of column k
Column(sample, k) ==
  LET vals == Vals(sample, k)
      non_empty == NonEmpty(vals)
      n == IF Len(vals) = 0 THEN 1 ELSE Len(vals)
      ne == Len(non_empty)
  IN  IF ne = 0 THEN ColumnSchemaDefault(k, TRUE)
      ELSE LET num == Count([i \in 1..ne |-> NUM_RE(non_empty[i])])
               integ == Count([i \in 1..ne |-> INT_RE(non_empty[i])])
               boo == Count([i \in 1..ne |-> IsBool(non_empty[i])])
               dat == Count([i \in 1..ne |-> _is_date(non_empty[i])])
               card == Card(non_empty)
               d == Decide(ne, boo, integ, num, dat, card)
           IN  ColumnSchema(k, d.dtype, ne < n, Round3(d.conf[1], d.conf[2]))

infer_schema(seed, rs, size) ==
  IF rs = <<>> THEN <<>>
  ELSE LET sample == Slice(rs, size)
           keys == SetOrder(seed, sample)
       IN  [i \in 1..Len(keys) |-> Column(sample, keys[i])]

(***************************************************************************)
(* import_preview                                                          *)
(***************************************************************************)
REQUIRE_JWT == FALSE

PreviewWarnLimit == 50000

PreviewSampleRows == 200

\* verify_jwt_if_needed: TRUE when it returns, FALSE when it raises 401
verify_jwt_if_needed(bearer) == (~REQUIRE_JWT) \/ bearer

\* req.schema: None, or a list of column descriptors
NoSchema == [given |-> FALSE, cols |-> <<>>]

GivenSchema(cols) == [given |-> TRUE, cols |-> cols]

\* the truth value Python gives req.schema in "req.schema or ...":
\* None and the empty list are false
Truthy(schema) == schema.given /\ schema.cols # <<>>

NoResponse == [status |-> 0, sample |-> <<>>, schema |-> <<>>, warnings |-> <<>>]

Warning == <<"G", "r", "o", "s">>

\* the response of import_preview for the schema it settled on
PreviewResponse(rs, schema) ==
  [status |-> 200,
   sample |-> Slice(rs, PreviewSampleRows),
   schema |-> schema,
   warnings |-> IF Len(rs) > PreviewWarnLimit THEN <<Warning>> ELSE <<>>]

(***************************************************************************)
(* The inputs of the model                                                 *)
(***************************************************************************)
Blank == StrCell(<<" ", " ">>)

One == StrCell(<<"1">>)

\* the cells of the rows of Spec: None, a blank string, a literal
Cells == {NoneCell, Blank, One}

\* the rows of Spec: every dict over the keys, in the order a, b, and one
\* in the order b, a
RowChoices ==
  {<<>>} \cup {<<Item(k, v)>> : k \in Keys, v \in Cells}
         \cup {<<Item("a", v), Item("b", w)>> : v \in Cells, w \in Cells}
         \cup {<<Item("b", One), Item("a", One)>>}

\* the rows of SpecPair
PairRowChoices ==
  { <<>>, <<Item("a", One)>>, <<Item("b", One)>>,
    <<Item("a", One), Item("b", One)>>, <<Item("b", One), Item("a", One)>> }

SampleSizes == (-1..MaxRows) \cup {DefaultSampleSize}

\* the schemas a request may carry
SchemaChoices ==
  { NoSchema, GivenSchema(<<>>),
    GivenSchema(<<ColumnSchema("a", "date", FALSE, NoConfidence)>>) }

\* the literal cells of the column of SpecColumn, in the order the client
\* lays them out
TypedCells ==
  << NoneCell,
     StrCell(<<"2", "0", "2", "4", "-", "0", "2", "-", "2", "9">>),
     StrCell(<<"2", ".", "5", "0">>),
     IntCell(-7),
     StrCell(<<" ", "Y", "e", "s", " ">>),
     StrCell(<<"0">>),
     StrCell(<<"1">>) >>

\* the free-text cells of the column of SpecColumn: near misses of the
\* literals first, then w11, w12, ...
NearMisses ==
  << <<"1", ".">>, <<".", "5">>, <<"+", "1">>, <<"1", "e", "3">>, <<"-">>,
     <<"1", ",", "5">>, <<"2", "0", "2", "3", "-", "0", "2", "-", "2", "9">>,
     <<"1", "3", "/", "1", "3", "/", "2", "0", "2", "4">>, <<"t", "r", "u">>,
     <<"N", "/", "A">> >>

Word(k) == StrCell(IF k <= Len(NearMisses) THEN NearMisses[k] ELSE <<"w">> \o NatStr(k))

NoGen == [typed |-> 0, last |-> 1, words |-> 0, blocks |-> 0]

(***************************************************************************)
(* Init                                                                    *)
(***************************************************************************)
Init ==
  /\ hashSeed \in [Keys -> 0..(NSlots - 1)]
  /\ rows = <<>>
  /\ gen = NoGen
  /\ pc = "build"
  /\ sample_size = DefaultSampleSize
  /\ out = <<>>
  /\ inferInvoked = FALSE
  /\ reqSchema = NoSchema
  /\ response = NoResponse
  /\ prevRows = <<>>
  /\ prevOut = <<>>

(***************************************************************************)
(* Spec: one request, handled by infer_schema or by import_preview         *)
(***************************************************************************)
\* the client adds a row to the request
AppendRow(r) ==
  /\ pc = "build"
  /\ Len(rows) < MaxRows
  /\ rows' = Append(rows, r)
  /\ UNCHANGED <<hashSeed, gen, pc, sample_size, out, inferInvoked, reqSchema,
                 response, prevRows, prevOut>>

\* infer_schema(rows, size)
InferSchema(size) ==
  /\ pc = "build"
  /\ pc' = "inferred"
  /\ sample_size' = size
  /\ out' = infer_schema(hashSeed, rows, size)
  /\ UNCHANGED <<hashSeed, rows, gen, inferInvoked, reqSchema, response, prevRows, prevOut>>

\* POST /api/import/preview
ImportPreview(schema, bearer) ==
  /\ pc = "build"
  /\ pc' = "previewed"
  /\ reqSchema' = schema
  /\ IF ~verify_jwt_if_needed(bearer)
     THEN /\ response' = [NoResponse EXCEPT !.status = 401]
          /\ UNCHANGED <<sample_size, out, inferInvoked>>
     ELSE IF Truthy(schema)
     THEN /\ response' = PreviewResponse(rows, schema.cols)
          /\ UNCHANGED <<sample_size, out, inferInvoked>>
     ELSE /\ inferInvoked' = TRUE
          /\ sample_size' = DefaultSampleSize
          /\ out' = infer_schema(hashSeed, rows, DefaultSampleSize)
          /\ response' = PreviewResponse(rows, out')
  /\ UNCHANGED <<hashSeed, rows, gen, prevRows, prevOut>>

Next ==
  \/ \E r \in RowChoices : AppendRow(r)
  \/ \E size \in SampleSizes : InferSchema(size)
  \/ \E schema \in SchemaChoices, bearer \in BOOLEAN : ImportPreview(schema, bearer)

Spec == Init /\ [][Next]_vars

(***************************************************************************)
(* SpecPair: infer_schema called twice in one process, the rows revised    *)
(* by the client in between                                                *)
(***************************************************************************)
AppendPairRow(r) ==
  /\ pc = "build"
  /\ Len(rows) < MaxRows
  /\ rows' = Append(rows, r)
  /\ UNCHANGED <<hashSeed, gen, pc, sample_size, out, inferInvoked, reqSchema,
                 response, prevRows, prevOut>>

\* the first call, infer_schema(rows, size)
FirstCall(size) ==
  /\ pc = "build"
  /\ pc' = "called"
  /\ sample_size' = size
  /\ out' = infer_schema(hashSeed, rows, size)
  /\ prevRows' = rows
  /\ prevOut' = out'
  /\ UNCHANGED <<hashSeed, rows, gen, inferInvoked, reqSchema, response>>

\* the client adds a row after those of the first call
AppendLater(r) ==
  /\ pc = "called"
  /\ pc' = "revised"
  /\ rows' = Append(rows, r)
  /\ UNCHANGED <<hashSeed, gen, sample_size, out, inferInvoked, reqSchema,
                 response, prevRows, prevOut>>

\* the client replaces the last row of the first call
ReplaceLast(r) ==
  /\ pc = "called"
  /\ rows # <<>>
  /\ pc' = "revised"
  /\ rows' = [rows EXCEPT ![Len(rows)] = r]
  /\ UNCHANGED <<hashSeed, gen, sample_size, out, inferInvoked, reqSchema,
                 response, prevRows, prevOut>>

\* the second call, with the sample_size of the first
SecondCall ==
  /\ pc \in {"called", "revised"}
  /\ pc' = "done"
  /\ out' = infer_schema(hashSeed, rows, sample_size)
  /\ UNCHANGED <<hashSeed, rows, gen, sample_size, inferInvoked, reqSchema,
                 response, prevRows, prevOut>>

NextPair ==
  \/ \E r \in PairRowChoices : AppendPairRow(r)
  \/ \E size \in SampleSizes : FirstCall(size)
  \/ \E r \in PairRowChoices : AppendLater(r)
  \/ \E r \in PairRowChoices : ReplaceLast(r)
  \/ SecondCall

SpecPair == Init /\ [][NextPair]_vars

(***************************************************************************)
(* SpecColumn: one column "a", laid out as literal cells, then distinct    *)
(* free-text cells, then blocks of copies of the last row; infer_schema    *)
(* is called with the default sample_size                                  *)
(***************************************************************************)
InitColumn == Init /\ hashSeed = [k \in Keys |-> 0]

AppendCell(i) ==
  /\ pc = "build"
  /\ gen.typed < MaxTyped /\ gen.words = 0 /\ gen.blocks = 0
  /\ i >= gen.last
  /\ rows' = Append(rows, <<Item("a", TypedCells[i])>>)
  /\ gen' = [gen EXCEPT !.typed = @ + 1, !.last = i]
  /\ UNCHANGED <<hashSeed, pc, sample_size, out, inferInvoked, reqSchema,
                 response, prevRows, prevOut>>

AppendWord ==
  /\ pc = "build"
  /\ gen.words < MaxWords /\ gen.blocks = 0
  /\ rows' = Append(rows, <<Item("a", Word(gen.words + 1))>>)
  /\ gen' = [gen EXCEPT !.words = @ + 1]
  /\ UNCHANGED <<hashSeed, pc, sample_size, out, inferInvoked, reqSchema,
                 response, prevRows, prevOut>>

AppendRepeat ==
  /\ pc = "build"
  /\ rows # <<>>
  /\ gen.typed <= RepeatTyped
  /\ gen.blocks < MaxRepeat
  /\ rows' = rows \o [i \in 1..RepeatBlock |-> rows[Len(rows)]]
  /\ gen' = [gen EXCEPT !.blocks = @ + 1]
  /\ UNCHANGED <<hashSeed, pc, sample_size, out, inferInvoked, reqSchema,
                 response, prevRows, prevOut>>

\* infer_schema(rows)
InferColumn ==
  /\ pc = "build"
  /\ pc' = "inferred"
  /\ sample_size' = DefaultSampleSize
  /\ out' = infer_schema(hashSeed, rows, DefaultSampleSize)
  /\ UNCHANGED <<hashSeed, rows, gen, inferInvoked, reqSchema, response, prevRows, prevOut>>

NextColumn ==
  \/ \E i \in 1..Len(TypedCells) : AppendCell(i)
  \/ AppendWord
  \/ AppendRepeat
  \/ InferColumn

SpecColumn == InitColumn /\ [][NextColumn]_vars

(***************************************************************************)
(* What the claims speak of                                                *)
(***************************************************************************)
\* the sampled rows of the last call
Sample == Slice(rows, sample_size)

\* the keys of the sampled rows
SampleKeys == UNION { {Sample[i][j][1] : j \in 1..Len(Sample[i])} : i \in 1..Len(Sample) }

\* the names of the descriptors returned
OutNames == {out[i].name : i \in 1..Len(out)}

\* row r has no value for k: the key is absent, the value is None, or its
\* string form is empty once trimmed
BlankAt(r, k) ==
  \/ ~HasKey(r, k)
  \/ Get(r, k).t = "none"
  \/ strip(str(Get(r, k))) = <<>>

\* the sampled rows with a value for k
Filled(k) == {i \in 1..Len(Sample) : ~BlankAt(Sample[i], k)}

\* the non-empty values of column "a"
ColA == NonEmpty(Vals(Sample, "a"))

\* a call of infer_schema has returned the descriptor of a column "a" that
\* has a non-empty sampled value; the column is the only one in SpecColumn
ScoredA == pc = "inferred" /\ Len(out) = 1 /\ out[1].name = "a" /\ ColA # <<>>

\* the rules in their order: the threshold and the confidence p/q of each,
\* from the counts taken over the non-empty values of a column
Rules(ne, boo, integ, num, dat, card) ==
  << [type |-> "boolean", holds |-> 10 * boo >= 8 * ne, p |-> boo, q |-> ne],
     [type |-> "integer", holds |-> 2 * integ >= ne, p |-> integ, q |-> ne],
     [type |-> "number", holds |-> 2 * num >= ne, p |-> num, q |-> ne],
     [type |-> "date", holds |-> 2 * dat >= ne, p |-> dat, q |-> ne],
     [type |-> "categorical", holds |-> card <= 10 \/ 10 * card <= 3 * ne,
      p |-> IF 10 * (ne - card) < 3 * ne THEN 3 * ne
            ELSE IF 10 * (ne - card) > 9 * ne THEN 9 * ne ELSE 10 * (ne - card),
      q |-> 10 * ne],
     [type |-> "string", holds |-> TRUE, p |-> 1, q |-> 10] >>

\* the first rule whose threshold holds
FirstRule(rules) ==
  rules[CHOOSE i \in 1..6 : rules[i].holds /\ \A j \in 1..(i - 1) : ~rules[j].holds]

\* the rules of column "a"
RulesA ==
  LET col == ColA
  IN  Rules(Len(col),
            Count([i \in 1..Len(col) |-> IsBool(col[i])]),
            Count([i \in 1..Len(col) |-> INT_RE(col[i])]),
            Count([i \in 1..Len(col) |-> NUM_RE(col[i])]),
            Count([i \in 1..Len(col) |-> _is_date(col[i])]),
            Card(col))

\* c thousandths is p/q rounded to three decimals
RoundedTo(c, p, q) ==
  LET d == 1000 * p - c * q IN 2 * d <= q /\ 2 * (0 - d) <= q

\* the first n rows of rs, all of them when rs has fewer, none when n <= 0
FirstRows(rs, n) == SubSeq(rs, 1, IF n < Len(rs) THEN n ELSE Len(rs))

(***************************************************************************)
(* The claims                                                              *)
(***************************************************************************)
\* C1: when the sample rows[:sample_size] is not empty, infer_schema returns
\* exactly one descriptor per distinct key of the sampled rows: the union of
\* the keys of ragged rows, no key twice, no other name.  When rows is empty
\* or the sampled rows carry no key, it returns the empty list.
C1_OneDescriptorPerKey ==
  pc = "inferred" =>
    /\ Sample # <<>> => OutNames = SampleKeys /\ Len(out) = Cardinality(SampleKeys)
    /\ (rows = <<>> \/ SampleKeys = {}) => out = <<>>

\* a ragged sample: two sampled rows with different keys, two descriptors
C1_Witness ==
  /\ pc = "inferred"
  /\ Len(out) = 2
  /\ \E i, j \in 1..Len(Sample) : ~HasKey(Sample[i], "a") /\ ~HasKey(Sample[j], "b")

\* C2 as stated: for a column with ne >= 1 the emitted type and confidence
\* are those of the first rule, in the order boolean, integer, number, date,
\* categorical, string, whose threshold holds: the confidence emitted is
\* exactly boo/ne, integ/ne, num/ne, dat/ne, the clamped 1 - card/ne, or 0.1.
C2_FirstRuleExactConfidence ==
  ScoredA =>
    LET first == FirstRule(RulesA)
    IN  /\ out[1].type = first.type
        /\ out[1].confidence * first.q = 1000 * first.p

\* C2 amended: for a column with ne >= 1 the emitted type is that of the
\* first rule whose threshold holds, no later rule overriding it, and the
\* emitted confidence is the confidence of that rule rounded to three
\* decimals.
C2_FirstRuleRounded ==
  ScoredA =>
    LET first == FirstRule(RulesA)
    IN  /\ out[1].type = first.type
        /\ RoundedTo(out[1].confidence, first.p, first.q)

\* the integer and the number threshold both hold and integer is emitted,
\* with a confidence that three decimals do not hold exactly
C2_Witness ==
  /\ ScoredA
  /\ out[1].type = "integer"
  /\ LET col == ColA
     IN  /\ 2 * Count([i \in 1..Len(col) |-> INT_RE(col[i])]) >= Len(col)
         /\ 2 * Count([i \in 1..Len(col) |-> NUM_RE(col[i])]) >= Len(col)
         /\ out[1].confidence * Len(col) # 1000 * Count([i \in 1..Len(col) |-> INT_RE(col[i])])

\* C3: a column with a non-empty value, all of whose non-empty values are
\* "0" or "1", is classified boolean with confidence 1.0, never integer.
C3_ZeroOneIsBoolean ==
  (ScoredA /\ LET col == ColA IN \A i \in 1..Len(col) : col[i] \in {<<"0">>, <<"1">>}) =>
    out[1].type = "boolean" /\ out[1].confidence = 1000

\* a column that mixes "0" and "1" over three rows or more
C3_Witness ==
  /\ ScoredA
  /\ out[1].type = "boolean"
  /\ LET col == ColA
     IN  /\ Len(col) >= 3
         /\ \A i \in 1..Len(col) : col[i] \in {<<"0">>, <<"1">>}
         /\ \E i, j \in 1..Len(col) : col[i] = <<"0">> /\ col[j] = <<"1">>

\* C4: for every sample_size, two row sequences that agree on their first
\* sample_size rows get the same descriptors from infer_schema: the rows
\* after position sample_size have no influence on the result.
C4_SampleBoundDecides ==
  (pc = "done" /\ FirstRows(rows, sample_size) = FirstRows(prevRows, sample_size)) =>
    out = prevOut

\* C5: a descriptor is nullable if and only if some sampled row has, for its
\* column, an absent key, a null value or a value whose trimmed string form
\* is empty.
C5_NullableIffBlank ==
  pc = "inferred" =>
    \A i \in 1..Len(out) :
      out[i].nullable <=> (\E j \in 1..Len(Sample) : BlankAt(Sample[j], out[i].name))

\* a column that is nullable only by a blank string beside one that is not
\* nullable
C5_Witness ==
  /\ pc = "inferred"
  /\ \E i, k \in 1..Len(out) :
       /\ out[i].nullable
       /\ \A j \in 1..Len(Sample) :
            HasKey(Sample[j], out[i].name) /\ Get(Sample[j], out[i].name).t # "none"
       /\ ~out[k].nullable

\* C6: the confidence of a descriptor is absent exactly when its column has
\* no non-empty sampled value, and then the type is string and nullable is
\* true; otherwise the confidence is present and lies in [0, 1].
C6_ConfidenceAbsentIffEmpty ==
  pc = "inferred" =>
    \A i \in 1..Len(out) :
      /\ out[i].confidence = NoConfidence <=> Filled(out[i].name) = {}
      /\ Filled(out[i].name) = {} => out[i].type = "string" /\ out[i].nullable
      /\ Filled(out[i].name) # {} => out[i].confidence >= 0 /\ out[i].confidence <= 1000

\* a column of empty values only, over two rows or more
C6_Witness ==
  /\ pc = "inferred"
  /\ Len(Sample) >= 2
  /\ \E i \in 1..Len(out) : out[i].confidence = NoConfidence /\ Filled(out[i].name) = {}

C8_SchemaBypassesInference ==
  (pc = "previewed" /\ reqSchema.given) =>
    response.schema = reqSchema.cols /\ ~inferInvoked

\* C9: a column with ne >= 1 is typed string, with confidence 0.1, only when
\* card > 10 and card > 0.3*ne; a column with at most 10 distinct non-empty
\* values is never typed string.
C9_StringOnlyAboveLimit ==
  ScoredA =>
    LET col == ColA
        ne == Len(col)
        card == Card(col)
    IN  /\ out[1].type = "string" =>
             card > 10 /\ 10 * card > 3 * ne /\ out[1].confidence = 100
        /\ card <= 10 => out[1].type # "string"

\* a column typed string
C9_Witness == ScoredA /\ out[1].type = "string" /\ Card(ColA) > 10

\* C10: integ <= num in every column; the type number is emitted only when
\* integ < 0.5*ne <= num and boo < 0.8*ne; a column whose non-empty values
\* are at least half integer literals is never typed number.
C10_NumberOnlyBelowHalfIntegers ==
  ScoredA =>
    LET col == ColA
        ne == Len(col)
        integ == Count([i \in 1..Len(col) |-> INT_RE(col[i])])
        num == Count([i \in 1..Len(col) |-> NUM_RE(col[i])])
        boo == Count([i \in 1..Len(col) |-> IsBool(col[i])])
    IN  /\ integ <= num
        /\ out[1].type = "number" =>
             2 * integ < ne /\ ne <= 2 * num /\ 10 * boo < 8 * ne
        /\ 2 * integ >= ne => out[1].type # "number"

\* a column typed number that holds integer literals too
C10_Witness == ScoredA /\ out[1].type = "number" /\ Count([i \in 1..Len(ColA) |-> INT_RE(ColA[i])]) >= 1

=============================================================================
